---- MODULE Spec2Model ----
(***************************************************************************)
(* Model of the AI-readiness scanner: the Flask handlers of src/app.py     *)
(* (/api/assess, /api/stats, /api/percentile) and the CIP engine of        *)
(* src/cip_engine_readiness.py (log_patterns, _check_analysis_trigger,     *)
(* analyze_patterns) over the three tables of the relational store.        *)
(*                                                                         *)
(* Timestamps (created_at, last_updated, generated_at) and the fixed tier  *)
(* texts (description, recommendation, next_steps) are left out: no        *)
(* modelled branch reads them.                                             *)
(***************************************************************************)
EXTENDS Integers, Sequences, FiniteSets, TLC

VARIABLES
    assessments,   \* table readiness_assessments: sequence of rows, index = id
    patterns,      \* table readiness_patterns: sequence of rows
    insights,      \* table readiness_insights: sequence of rows
    request,       \* the request (or engine call) handled by the last step
    response,      \* what that step returned to its caller
    contributed,   \* history: per pattern key, how many upserts ran and their score sum
    logCalls,      \* history: number of log_patterns calls made
    tx,            \* concurrent requests in flight: per-connection transaction state
    engine         \* the CIP engine's connection (self.conn): its open transaction

vars == <<assessments, patterns, insights, request, response, contributed, logCalls, tx,
          engine>>

\* ------------------------------------------------------------------ bounds

MaxAssessments == 3
MaxLogCalls == 2
MaxKeys == 3
TriggerMax == 11
NumProcs == 2
MaxTriggerLogs == 1
MaxEngineAssessments == 1
MaxFailLogCalls == 3

\* ------------------------------------------------------- values and helpers

NULL == "NULL"

\* Python truthiness of the optional industry string (None and '' are falsy).
TruthyStr(s) == s # NULL /\ s # ""

\* str(q) for the question numbers used as answer keys.
Str(q) == <<"1", "2", "3", "4", "5", "6", "7", "8", "9">>[q]

RECURSIVE SumOver(_, _)
SumOver(f, S) ==
    IF S = {} THEN 0
    ELSE LET k == CHOOSE x \in S : TRUE IN f[k] + SumOver(f, S \ {k})

\* sum(values) of a mapping
SumValues(f) == SumOver(f, DOMAIN f)

\* Python 3 round() of the quotient n/d (n >= 0, d > 0): nearest integer,
\* halves to the even neighbour.
PyRoundFloor(n, d) == n \div d

PyRound(n, d) ==
    LET q == n \div d
        r == n % d
    IN  IF 2 * r < d THEN q
        ELSE IF 2 * r > d THEN q + 1
        ELSE IF q % 2 = 0 THEN q ELSE q + 1

\* ---------------------------------------------------------------- scoring

\* categories = {...}: category name and its question numbers, in declaration order
categories ==
    << [name |-> "Data Infrastructure",  questions |-> <<1>>],
       [name |-> "Process Maturity",     questions |-> <<2>>],
       [name |-> "Team Readiness",       questions |-> <<3>>],
       [name |-> "Financial Capacity",   questions |-> <<4>>],
       [name |-> "Problem Definition",   questions |-> <<5>>],
       [name |-> "Technical Foundation", questions |-> <<6>>],
       [name |-> "Decision Authority",   questions |-> <<7>>] >>

CategoryNames == {categories[i].name : i \in DOMAIN categories}

\* position of a category in the declaration order
CategoryIndex(c) == CHOOSE i \in DOMAIN categories : categories[i].name = c

\* answers.get(str(q), 0)
AnswerGet(answers, q) == IF Str(q) \in DOMAIN answers THEN answers[Str(q)] ELSE 0

RECURSIVE SumSeq(_)
SumSeq(s) == IF s = <<>> THEN 0 ELSE Head(s) + SumSeq(Tail(s))

\* overall_score = round(sum(values) / len(values))
OverallScore(answers) == PyRound(SumValues(answers), Cardinality(DOMAIN answers))

\* category_scores[category] = round(sum(category_values) / len(category_values))
CategoryScores(answers) ==
    [c \in CategoryNames |->
        LET qs == categories[CategoryIndex(c)].questions
            category_values == [i \in DOMAIN qs |-> AnswerGet(answers, qs[i])]
        IN  PyRound(SumSeq(category_values), Len(category_values))]

\* the if/elif chain on overall_score
LevelStrict(overall_score) ==
    IF overall_score > 80 THEN "Highly Ready for AI"
    ELSE IF overall_score > 60 THEN "Ready with Some Preparation"
    ELSE IF overall_score > 40 THEN "Moderate Readiness"
    ELSE "Early Stage"

Level(overall_score) ==
    IF overall_score >= 80 THEN "Highly Ready for AI"
    ELSE IF overall_score >= 60 THEN "Ready with Some Preparation"
    ELSE IF overall_score >= 40 THEN "Moderate Readiness"
    ELSE "Early Stage"

\* category_scores.items(): (category, score) pairs in insertion order
Items(category_scores) ==
    [i \in DOMAIN categories |-> <<categories[i].name, category_scores[categories[i].name]>>]

\* sorted(items, key=lambda x: x[1]): stable insertion into an ascending list
RECURSIVE InsertByScore(_, _)
InsertByScore(sortedItems, item) ==
    IF sortedItems = <<>> THEN <<item>>
    ELSE IF item[2] < sortedItems[Len(sortedItems)][2]
         THEN Append(InsertByScore(SubSeq(sortedItems, 1, Len(sortedItems) - 1), item),
                     sortedItems[Len(sortedItems)])
         ELSE Append(sortedItems, item)

RECURSIVE SortedByScore(_)
SortedByScore(items) ==
    IF items = <<>> THEN <<>>
    ELSE InsertByScore(SortedByScore(SubSeq(items, 1, Len(items) - 1)), items[Len(items)])

Min(a, b) == IF a < b THEN a ELSE b

\* a sort that is not stable: equal scores come out in reverse declaration order
RECURSIVE InsertByScoreUnstable(_, _)
InsertByScoreUnstable(sortedItems, item) ==
    IF sortedItems = <<>> THEN <<item>>
    ELSE IF item[2] <= sortedItems[Len(sortedItems)][2]
         THEN Append(InsertByScoreUnstable(SubSeq(sortedItems, 1, Len(sortedItems) - 1), item),
                     sortedItems[Len(sortedItems)])
         ELSE Append(sortedItems, item)

RECURSIVE SortedByScoreUnstable(_)
SortedByScoreUnstable(items) ==
    IF items = <<>> THEN <<>>
    ELSE InsertByScoreUnstable(SortedByScoreUnstable(SubSeq(items, 1, Len(items) - 1)),
                               items[Len(items)])

WeakCategoriesUnstable(category_scores) ==
    LET s == SortedByScoreUnstable(Items(category_scores))
    IN  SubSeq(s, 1, Min(3, Len(s)))

\* weak_categories = sorted(category_scores.items(), key=lambda x: x[1])[:3]
WeakCategories(category_scores) ==
    LET s == SortedByScore(Items(category_scores))
    IN  SubSeq(s, 1, Min(3, Len(s)))

\* ------------------------------------------------------- the patterns table

RECURSIVE GCD(_, _)
GCD(a, b) == IF b = 0 THEN a ELSE GCD(b, a % b)

\* the value n/d held by the avg_score column, in lowest terms
StoreAvg(n, d) == LET g == GCD(n, d) IN <<n \div g, d \div g>>

\* avg_score of a row inserted without one (high_performer): SQL NULL
NullAvg == <<0, 0>>

\* (avg + new) / 2: an average of averages instead of the weighted mean
RunningAvgUnweighted(avg_score, frequency, excluded) ==
    StoreAvg(avg_score[1] + excluded * avg_score[2], avg_score[2] * 2)

\* (readiness_patterns.avg_score * readiness_patterns.frequency + EXCLUDED.avg_score)
\*     / (readiness_patterns.frequency + 1)
RunningAvg(avg_score, frequency, excluded) ==
    StoreAvg(avg_score[1] * frequency + excluded * avg_score[2],
             avg_score[2] * (frequency + 1))

\* json.dumps({...}) of the key dictionaries: the key/value pairs, in order
IndustryKey(industry) == <<"industry_readiness", <<"industry", industry>> >>
WeakCategoryKey(category) == <<"weak_category", <<"category", category>> >>
BlockingFactorKey(category) == <<"blocking_factor", <<"category", category>> >>
HighPerformerKey(industry) == <<"high_performer", <<"score_range", "75+", "industry", industry>> >>

KeyOf(row) == <<row.pattern_type, row.pattern_data>>

\* indices of the rows of a patterns table that carry a key
RowsWithKey(table, key) == {i \in DOMAIN table : KeyOf(table[i]) = key}

\* VALUES (type, data, 1, score): the row proposed for insertion
NewRow(key, score) ==
    [pattern_type |-> key[1], pattern_data |-> key[2], frequency |-> 1,
     avg_score |-> StoreAvg(score, 1)]

\* DO UPDATE SET frequency = frequency + 1, avg_score = ...
UpdatedRow(row, score) ==
    [row EXCEPT !.frequency = row.frequency + 1,
                !.avg_score = RunningAvg(row.avg_score, row.frequency, score)]

\* INSERT ... ON CONFLICT (pattern_type, pattern_data) DO UPDATE, one statement
UpsertPattern(table, key, score) ==
    IF RowsWithKey(table, key) = {}
    THEN Append(table, NewRow(key, score))
    ELSE LET i == CHOOSE j \in RowsWithKey(table, key) : TRUE
         IN  [table EXCEPT ![i] = UpdatedRow(table[i], score)]

\* the high_performer upsert: no avg_score column, frequency only
UpsertFrequency(table, key) ==
    IF RowsWithKey(table, key) = {}
    THEN Append(table, [pattern_type |-> key[1], pattern_data |-> key[2],
                        frequency |-> 1, avg_score |-> NullAvg])
    ELSE LET i == CHOOSE j \in RowsWithKey(table, key) : TRUE
         IN  [table EXCEPT ![i].frequency = @ + 1]

\* a handler's upsert statements, run in order; each is <<key, score>>
RECURSIVE ApplyUpserts(_, _)
ApplyUpserts(table, ups) ==
    IF ups = <<>> THEN table
    ELSE ApplyUpserts(UpsertPattern(table, Head(ups)[1], Head(ups)[2]), Tail(ups))

\* history of the scores contributed under each key
RECURSIVE ContributeAll(_, _)
ContributeAll(c, ups) ==
    IF ups = <<>> THEN c
    ELSE LET key == Head(ups)[1]
             score == Head(ups)[2]
             c1 == IF key \in DOMAIN c
                   THEN [c EXCEPT ![key] = [n |-> @.n + 1, sum |-> @.sum + score]]
                   ELSE c @@ (key :> [n |-> 1, sum |-> score])
         IN  ContributeAll(c1, Tail(ups))

\* -------------------------------------------------------------- /api/assess

\* data.get('industry')
GetIndustry(data) == IF "industry" \in DOMAIN data THEN data.industry ELSE NULL

\* `not answers` is false: the answers field is there and is a non-empty mapping
HasAnswers(data) == "answers" \in DOMAIN data /\ DOMAIN data.answers # {}

\* the industry_readiness upsert of a handler: `if industry and overall_score:`
IndustryUpserts(industry, overall_score) ==
    IF TruthyStr(industry) /\ overall_score # 0
    THEN << <<IndustryKey(industry), overall_score>> >>
    ELSE <<>>

\* for category, score in weak_categories: upsert ('weak_category', {category})
WeakUpserts(weak_categories) ==
    [i \in DOMAIN weak_categories |->
        <<WeakCategoryKey(weak_categories[i][1]), weak_categories[i][2]>>]

NoTx == <<>>

\* jsonify({'error': ...}) returned without the 400
ErrorResponseNoStatus == [status |-> 200, body |-> [error |-> "No answers provided"]]

\* return jsonify({'error': 'No answers provided'}), 400
ErrorResponse == [status |-> 400, body |-> [error |-> "No answers provided"]]

assess_readiness(data) ==
    IF ~HasAnswers(data)
    THEN /\ request' = [op |-> "assess", data |-> data, connected |-> FALSE, analyzed |-> FALSE]
         /\ response' = ErrorResponse
         /\ UNCHANGED <<assessments, patterns, insights, contributed, logCalls, tx, engine>>
    ELSE LET answers == data.answers
             industry == GetIndustry(data)
             overall_score == OverallScore(answers)
             category_scores == CategoryScores(answers)
             level == Level(overall_score)
             weak_categories == WeakCategories(category_scores)
             assessment_id == Len(assessments) + 1
             ups == IndustryUpserts(industry, overall_score) \o WeakUpserts(weak_categories)
         IN  /\ request' = [op |-> "assess", data |-> data, connected |-> TRUE, analyzed |-> FALSE]
             /\ assessments' = Append(assessments,
                    [id |-> assessment_id, industry |-> industry,
                     overall_score |-> overall_score,
                     category_scores |-> category_scores,
                     readiness_level |-> level])
             /\ patterns' = ApplyUpserts(patterns, ups)
             /\ contributed' = ContributeAll(contributed, ups)
             /\ response' = [status |-> 200,
                             body |-> [assessment_id |-> assessment_id,
                                       overall_score |-> overall_score,
                                       category_scores |-> category_scores,
                                       readiness_level |-> level,
                                       weak_areas |-> [i \in DOMAIN weak_categories |->
                                                          weak_categories[i][1]]]]
             /\ UNCHANGED <<insights, logCalls, tx, engine>>

\* ------------------------------------------------- /api/percentile/<score>

\* SELECT COUNT(*) FROM readiness_assessments WHERE overall_score <= %s
LowerCountInclusive(table, score) ==
    Cardinality({i \in DOMAIN table : table[i].overall_score <= score})

\* SELECT COUNT(*) FROM readiness_assessments WHERE overall_score < %s
LowerCount(table, score) ==
    Cardinality({i \in DOMAIN table : table[i].overall_score < score})

\* percentile = 50 if total == 0 else round((lower_count / total) * 100)
Percentile(lower_count, total) ==
    IF total = 0 THEN 50 ELSE PyRound(lower_count * 100, total)

get_percentile(score) ==
    LET lower_count == LowerCount(assessments, score)
        total == Len(assessments)
        percentile == Percentile(lower_count, total)
    IN  /\ request' = [op |-> "percentile", data |-> score, connected |-> TRUE,
                       analyzed |-> FALSE]
        /\ response' = [status |-> 200,
                        body |-> [percentile |-> percentile, top |-> 100 - percentile]]
        /\ UNCHANGED <<assessments, patterns, insights, contributed, logCalls, tx, engine>>

\* ---------------------------------------------------------------- /api/stats

RECURSIVE SumScores(_)
SumScores(table) ==
    IF table = <<>> THEN 0 ELSE Head(table).overall_score + SumScores(Tail(table))

\* WHERE industry IS NOT NULL GROUP BY industry: one row per industry
IndustryGroups(table) ==
    LET named == {table[i].industry : i \in DOMAIN table} \ {NULL}
    IN  {LET rows == {i \in DOMAIN table : table[i].industry = ind}
             total == SumOver([i \in rows |-> table[i].overall_score], rows)
         IN  [industry |-> ind,
              avg_score |-> PyRound(total, Cardinality(rows)),
              count |-> Cardinality(rows)] : ind \in named}

\* the orders ORDER BY count DESC LIMIT 5 may return: rows with equal counts
\* come in any order
TopIndustries(table) ==
    LET groups == IndustryGroups(table)
        n == Min(5, Cardinality(groups))
    IN  {s \in [1..n -> groups] :
            /\ \A i, j \in 1..n : i < j => s[i] # s[j] /\ s[i].count >= s[j].count
            /\ \A g \in groups : (\E i \in 1..n : s[i] = g) \/
                                 (\A i \in 1..n : s[i].count >= g.count)}

get_stats ==
    LET total == Len(assessments)
        avg_score == IF total > 0 /\ SumScores(assessments) > 0
                     THEN PyRound(SumScores(assessments), total) ELSE 0
    IN  /\ request' = [op |-> "stats", data |-> NULL, connected |-> TRUE,
                       analyzed |-> FALSE]
        /\ \E top_industries \in TopIndustries(assessments) :
              response' = [status |-> 200,
                           body |-> [total_assessments |-> total,
                                     average_score |-> avg_score,
                                     top_industries |-> top_industries]]
        /\ UNCHANGED <<assessments, patterns, insights, contributed, logCalls, tx, engine>>

\* ------------------------------------------------------------ the CIP engine

\* avg a >= avg b, both non-NULL
AvgGeq(a, b) == a[1] * b[2] >= b[1] * a[2]

\* what analyze_patterns may insert: the rows a tie in ORDER BY ... LIMIT puts
\* first are any of the tied rows
AnalysisResults(pt, as) ==
    LET ind == {i \in DOMAIN pt : pt[i].pattern_type = "industry_readiness"
                                  /\ pt[i].frequency >= 3}
        blk == {i \in DOMAIN pt : pt[i].pattern_type = "blocking_factor"}
        topInd == {i \in ind : \A j \in ind : AvgGeq(pt[i].avg_score, pt[j].avg_score)}
        topBlk == {i \in blk : \A j \in blk : pt[i].frequency >= pt[j].frequency}
        high_performers == Cardinality({i \in DOMAIN as : as[i].overall_score >= 75})
        total == Len(as)
        first == IF ind = {} THEN {<<>>}
                 ELSE {<< [insight_type |-> "top_ready_industry",
                           subject |-> pt[i].pattern_data[2],
                           avg_score |-> pt[i].avg_score,
                           count |-> pt[i].frequency] >> : i \in topInd}
        second == IF blk = {} THEN {<<>>}
                  ELSE {<< [insight_type |-> "top_blocker",
                            subject |-> pt[i].pattern_data[2],
                            avg_score |-> pt[i].avg_score,
                            count |-> pt[i].frequency] >> : i \in topBlk}
        third == IF total > 0
                 THEN << [insight_type |-> "conversion_potential",
                          subject |-> "75+",
                          avg_score |-> StoreAvg(high_performers * 100, total),
                          count |-> total] >>
                 ELSE <<>>
    IN  {a \o b \o third : a \in first, b \in second}

\* if count % 10 == 0: self.analyze_patterns()
AnalysisDue(count) == count % 10 = 0

\* the blocking_factor upserts: every category whose score is below 60
RECURSIVE BlockingUpserts(_)
BlockingUpserts(items) ==
    IF items = <<>> THEN <<>>
    ELSE (IF Head(items)[2] < 60
          THEN << <<BlockingFactorKey(Head(items)[1]), Head(items)[2]>> >>
          ELSE <<>>) \o BlockingUpserts(Tail(items))

\* self.conn of a fresh engine: no transaction open
ReadyEngine == [status |-> "ready", uncommitted |-> <<>>]

\* the statements a log_patterns call executes before its commit
LogUpserts(assessment_data) ==
    IndustryUpserts(assessment_data.industry, assessment_data.overall_score)
    \o BlockingUpserts(Items(assessment_data.category_scores))

\* assessment_data: industry, overall_score, category_scores of a completed assessment
log_patterns(assessment_data) ==
    LET industry == assessment_data.industry
        overall_score == assessment_data.overall_score
        category_scores == assessment_data.category_scores
        ups == IndustryUpserts(industry, overall_score)
               \o BlockingUpserts(Items(category_scores))
        scored == ApplyUpserts(patterns, ups)
        logged == IF overall_score >= 75
                  THEN UpsertFrequency(scored, HighPerformerKey(industry))
                  ELSE scored
        count == Len(assessments)
    IN  /\ engine.status = "ready"
        /\ patterns' = logged
        /\ contributed' = ContributeAll(contributed, ups)
        /\ logCalls' = logCalls + 1
        /\ request' = [op |-> "log_patterns", data |-> assessment_data,
                       connected |-> TRUE, analyzed |-> AnalysisDue(count),
                       failed_step |-> 0]
        /\ response' = [status |-> 0]
        /\ IF AnalysisDue(count)
           THEN \E rows \in AnalysisResults(logged, assessments) :
                    insights' = insights \o rows
           ELSE UNCHANGED insights
        /\ UNCHANGED <<assessments, tx, engine>>

\* a store that commits every statement as it runs (autocommit)
PersistedPerStatement(table, ups) == ApplyUpserts(table, ups)

\* what the patterns table holds once a call has raised before line 89, the
\* only self.conn.commit() of log_patterns: none of the call's statements
PersistedOnFailure(table, ups) == table

\* log_patterns whose high_performer statement (step 3) raises a store error:
\* the exception leaves the method before commit and close, and the store has
\* aborted the transaction that self.conn still holds
log_patterns_step3_fails(assessment_data) ==
    LET ups == LogUpserts(assessment_data)
    IN  /\ engine.status = "ready"
        /\ assessment_data.overall_score >= 75
        /\ patterns' = PersistedOnFailure(patterns, ups)
        /\ engine' = [status |-> "aborted", uncommitted |-> ups]
        /\ logCalls' = logCalls + 1
        /\ request' = [op |-> "log_patterns", data |-> assessment_data,
                       connected |-> TRUE, analyzed |-> FALSE, failed_step |-> 3]
        /\ response' = [status |-> 500]
        /\ UNCHANGED <<assessments, insights, contributed, tx>>

\* log_patterns on the engine after such a failure: its first statement is
\* refused (the transaction is aborted); a call that runs no statement reaches
\* commit(), which ends the aborted transaction as a rollback, and goes on to
\* the trigger check
log_patterns_on_aborted(assessment_data) ==
    LET ups == LogUpserts(assessment_data)
        first == IF IndustryUpserts(assessment_data.industry,
                                    assessment_data.overall_score) # <<>> THEN 1
                 ELSE IF ups # <<>> THEN 2
                 ELSE IF assessment_data.overall_score >= 75 THEN 3
                 ELSE 0
        count == Len(assessments)
    IN  /\ engine.status = "aborted"
        /\ logCalls' = logCalls + 1
        /\ IF first # 0
           THEN /\ request' = [op |-> "log_patterns", data |-> assessment_data,
                               connected |-> TRUE, analyzed |-> FALSE,
                               failed_step |-> first]
                /\ response' = [status |-> 500]
                /\ UNCHANGED <<insights, engine>>
           ELSE /\ request' = [op |-> "log_patterns", data |-> assessment_data,
                               connected |-> TRUE, analyzed |-> AnalysisDue(count),
                               failed_step |-> 0]
                /\ response' = [status |-> 0]
                /\ engine' = ReadyEngine
                /\ IF AnalysisDue(count)
                   THEN \E rows \in AnalysisResults(patterns, assessments) :
                            insights' = insights \o rows
                   ELSE UNCHANGED insights
        /\ UNCHANGED <<assessments, patterns, contributed, tx>>

\* ------------------------------------------------------------------ inputs

\* answer values that reach every tier boundary and the rounding ties
ScoreValues == {0, 1, 2, 39, 40, 41, 59, 60, 79, 80, 81, 100}

\* answer values for full questionnaires
CoarseValues == {30, 60, 90}

AllQuestions == {Str(q) : q \in 1..7}

\* the answer mappings of the scoring specification
ScoreAnswers ==
    UNION {[{Str(q) : q \in 1..n} -> ScoreValues] : n \in 1..MaxKeys}
    \cup [AllQuestions -> CoarseValues]

ScoreBodies ==
    {[industry |-> "retail", answers |-> a] : a \in ScoreAnswers}
    \cup {[industry |-> "retail"], [industry |-> "retail", answers |-> <<>>]}

InitDb ==
    /\ assessments = <<>>
    /\ patterns = <<>>
    /\ insights = <<>>
    /\ request = [op |-> "none"]
    /\ response = [status |-> 0]
    /\ contributed = <<>>
    /\ logCalls = 0
    /\ tx = NoTx
    /\ engine = ReadyEngine

\* a questionnaire answered in full: questions 1 and 2 as given, the rest 60
FullAnswers(v1, v2) ==
    [k \in AllQuestions |-> IF k = "1" THEN v1 ELSE IF k = "2" THEN v2 ELSE 60]

MainValues == {0, 90}

\* the answer mappings of the main specification: overall scores 0, 43, 56, 69, 90
MainAnswers ==
    {FullAnswers(v1, v2) : v1, v2 \in MainValues}
    \cup {[k \in AllQuestions |-> 0], [k \in AllQuestions |-> 90]}

\* its request bodies: industry given or not, and two bodies without answers
MainBodies ==
    {[industry |-> "retail", answers |-> a] : a \in MainAnswers}
    \cup {[answers |-> FullAnswers(0, 90)], [answers |-> [k \in AllQuestions |-> 90]]}
    \cup {[industry |-> "retail"], [industry |-> "retail", answers |-> <<>>]}

\* the submissions of the engine specification
EngineBodies ==
    {[industry |-> "retail", answers |-> a] :
        a \in {[k \in AllQuestions |-> 0], FullAnswers(0, 90), [k \in AllQuestions |-> 90]}}

\* the submissions whose fields are passed to log_patterns
LogBodies == EngineBodies \cup {[answers |-> [k \in AllQuestions |-> 90]]}

\* what a caller passes to log_patterns: the fields of a completed assessment
LogInputs ==
    {[industry |-> GetIndustry(b), overall_score |-> OverallScore(b.answers),
      category_scores |-> CategoryScores(b.answers)] : b \in LogBodies}

PercentileScores == {0, 56, 90, 101}

\* ---------------------------------------------- the scoring specification
\* One submission to an empty store, over a wide range of answer mappings.

AssessScore == \E data \in ScoreBodies : assessments = <<>> /\ assess_readiness(data)

SpecScore == InitDb /\ [][AssessScore]_vars

\* ------------------------------------------------- the main specification
\* The Flask application: requests handled one at a time.

Assess == \E data \in MainBodies : Len(assessments) < MaxAssessments /\ assess_readiness(data)

PercentileReq == \E score \in PercentileScores : get_percentile(score)

StatsReq == get_stats

Next == Assess \/ PercentileReq \/ StatsReq

Spec == InitDb /\ [][Next]_vars

\* ----------------------------------------------- the engine specification
\* Submissions to the application and calls of the engine's log_patterns on
\* the same store, one at a time.

AssessEngine ==
    \E data \in EngineBodies :
        Len(assessments) < MaxEngineAssessments /\ assess_readiness(data)

LogPatterns == \E d \in LogInputs : logCalls < MaxLogCalls /\ log_patterns(d)

NextEngine == AssessEngine \/ LogPatterns

SpecEngine == InitDb /\ [][NextEngine]_vars

\* ----------------------------------------------- the trigger specification
\* Enough submissions for the assessment count to reach a multiple of ten.

TriggerBodies ==
    {[industry |-> "retail", answers |-> a] :
        a \in {FullAnswers(0, 90), [k \in AllQuestions |-> 90]}}

TriggerLogInputs ==
    {[industry |-> GetIndustry(b), overall_score |-> OverallScore(b.answers),
      category_scores |-> CategoryScores(b.answers)] : b \in TriggerBodies}

AssessTrigger ==
    \E data \in TriggerBodies : Len(assessments) < TriggerMax /\ assess_readiness(data)

LogTrigger == \E d \in TriggerLogInputs : logCalls < MaxTriggerLogs /\ log_patterns(d)

NextTrigger == AssessTrigger \/ LogTrigger

SpecTrigger == InitDb /\ [][NextTrigger]_vars

\* ---------------------------------------------- the failure specification
\* Submissions to the application and calls of log_patterns on one engine,
\* where the store may refuse the high_performer statement.

\* one low category with a high overall score (77), high scores throughout,
\* and a submission for which log_patterns has nothing to write
FailBodies ==
    {[industry |-> "retail",
      answers |-> [k \in AllQuestions |-> IF k = "1" THEN 0 ELSE 90]],
     [industry |-> "retail", answers |-> [k \in AllQuestions |-> 90]],
     [answers |-> [k \in AllQuestions |-> 60]]}

FailLogInputs ==
    {[industry |-> GetIndustry(b), overall_score |-> OverallScore(b.answers),
      category_scores |-> CategoryScores(b.answers)] : b \in FailBodies}

AssessFail ==
    \E data \in FailBodies :
        Len(assessments) < MaxEngineAssessments /\ assess_readiness(data)

LogOk == \E d \in FailLogInputs : logCalls < MaxFailLogCalls /\ log_patterns(d)

LogStep3Fails ==
    \E d \in FailLogInputs : logCalls < MaxFailLogCalls /\ log_patterns_step3_fails(d)

LogOnAborted ==
    \E d \in FailLogInputs : logCalls < MaxFailLogCalls /\ log_patterns_on_aborted(d)

NextFailure == AssessFail \/ LogOk \/ LogStep3Fails \/ LogOnAborted

SpecFailure == InitDb /\ [][NextFailure]_vars

\* ------------------------------------------- the concurrent specification
\* NumProcs submissions to /api/assess in flight at once, each on its own
\* connection and in its own transaction (psycopg2 opens one at the first
\* statement; conn.commit() ends it). The store runs them at READ COMMITTED:
\* a transaction sees the committed rows and its own writes, and a row written
\* by a transaction stays locked until that transaction ends.

Procs == 1..NumProcs

IdleTx == [pc |-> "idle", data |-> <<>>, row |-> <<>>, stmts |-> <<>>, ups |-> <<>>,
           writes |-> <<>>, overlap |-> FALSE, conn |-> "none"]

\* transaction q has written the row of a key and not yet ended
Holds(q, key) ==
    /\ tx[q].pc = "running"
    /\ \E i \in DOMAIN tx[q].writes : tx[q].writes[i].key = key

\* a store without the row lock: a read followed by a separate write
UpsertNeverBlocked(p, key) == FALSE

\* INSERT ... ON CONFLICT DO UPDATE waits while another transaction holds the
\* row (or the index entry) of its key
UpsertBlocked(p, key) == \E q \in Procs \ {p} : Holds(q, key)

\* the transactions p waits for
WaitsFor(p) ==
    IF tx[p].pc = "running" /\ tx[p].stmts # <<>>
    THEN {q \in Procs \ {p} : Holds(q, Head(tx[p].stmts)[1]) /\ UpsertBlocked(p, Head(tx[p].stmts)[1])}
    ELSE {}

RECURSIVE WaitClosure(_, _)
WaitClosure(S, n) ==
    IF n = 0 THEN S
    ELSE WaitClosure(S \cup UNION {WaitsFor(q) : q \in S}, n - 1)

\* p waits, directly or through others, for a transaction that waits for p
Deadlocked(p) == p \in WaitClosure(WaitsFor(p), NumProcs) /\ WaitsFor(p) # {}

\* nextval of the id sequence: ids drawn so far are never reused
NextId == 1 + Cardinality({q \in Procs : tx[q].row # <<>>})

\* the handler up to and including INSERT INTO readiness_assessments
Begin(p, data) ==
    /\ tx[p].pc = "idle"
    /\ IF ~HasAnswers(data)
       THEN /\ tx' = [tx EXCEPT ![p].pc = "done", ![p].data = data]
            /\ request' = [op |-> "assess", data |-> data, connected |-> FALSE,
                           analyzed |-> FALSE]
            /\ response' = ErrorResponse
       ELSE LET answers == data.answers
                industry == GetIndustry(data)
                overall_score == OverallScore(answers)
                category_scores == CategoryScores(answers)
                ups == IndustryUpserts(industry, overall_score)
                       \o WeakUpserts(WeakCategories(category_scores))
            IN  /\ tx' = [tx EXCEPT ![p] =
                            [pc |-> "running", data |-> data,
                             row |-> [id |-> NextId, industry |-> industry,
                                      overall_score |-> overall_score,
                                      category_scores |-> category_scores,
                                      readiness_level |-> Level(overall_score)],
                             stmts |-> ups, ups |-> ups, writes |-> <<>>,
                             overlap |-> \E q \in Procs \ {p} : tx[q].pc = "running",
                             conn |-> "open"]]
                /\ UNCHANGED <<request, response>>
    /\ UNCHANGED <<assessments, patterns, insights, contributed, logCalls, engine>>

\* the next upsert statement of p's handler
Upsert(p) ==
    /\ tx[p].pc = "running"
    /\ tx[p].stmts # <<>>
    /\ LET key == Head(tx[p].stmts)[1]
           score == Head(tx[p].stmts)[2]
           own == {i \in DOMAIN tx[p].writes : tx[p].writes[i].key = key}
           committed == RowsWithKey(patterns, key)
           writes ==
               IF own # {}
               THEN LET i == CHOOSE j \in own : TRUE
                    IN  [tx[p].writes EXCEPT ![i].row = UpdatedRow(@, score)]
               ELSE IF committed # {}
               THEN LET i == CHOOSE j \in committed : TRUE
                    IN  Append(tx[p].writes,
                               [kind |-> "update", key |-> key,
                                row |-> UpdatedRow(patterns[i], score)])
               ELSE Append(tx[p].writes,
                           [kind |-> "insert", key |-> key, row |-> NewRow(key, score)])
       IN  /\ ~UpsertBlocked(p, key)
           /\ tx' = [tx EXCEPT ![p].stmts = Tail(@), ![p].writes = writes]
    /\ UNCHANGED <<assessments, patterns, insights, request, response, contributed,
                   logCalls, engine>>

\* the writes of a transaction made visible
RECURSIVE ApplyWrites(_, _)
ApplyWrites(table, writes) ==
    IF writes = <<>> THEN table
    ELSE LET w == Head(writes)
             next == IF w.kind = "insert"
                     THEN Append(table, w.row)
                     ELSE [i \in DOMAIN table |->
                              IF KeyOf(table[i]) = w.key THEN w.row ELSE table[i]]
         IN  ApplyWrites(next, Tail(writes))

\* conn.commit(), close, and the 200 response
Commit(p) ==
    /\ tx[p].pc = "running"
    /\ tx[p].stmts = <<>>
    /\ assessments' = Append(assessments, tx[p].row)
    /\ patterns' = ApplyWrites(patterns, tx[p].writes)
    /\ contributed' = ContributeAll(contributed, tx[p].ups)
    /\ tx' = [tx EXCEPT ![p].pc = "done", ![p].writes = <<>>, ![p].conn = "closed"]
    /\ request' = [op |-> "assess", data |-> tx[p].data, connected |-> TRUE,
                   analyzed |-> FALSE]
    /\ response' = [status |-> 200,
                    body |-> [assessment_id |-> tx[p].row.id,
                              overall_score |-> tx[p].row.overall_score,
                              category_scores |-> tx[p].row.category_scores,
                              readiness_level |-> tx[p].row.readiness_level,
                              weak_areas |->
                                  LET w == WeakCategories(tx[p].row.category_scores)
                                  IN  [i \in DOMAIN w |-> w[i][1]]]]
    /\ UNCHANGED <<insights, logCalls, engine>>

\* the store breaks a lock cycle by failing one statement in it: the
\* exception leaves the handler, nothing of the transaction is committed, and
\* cur.close() and conn.close() (lines 151-152) are not reached
DeadlockAbort(p) ==
    /\ Deadlocked(p)
    /\ tx' = [tx EXCEPT ![p].pc = "failed", ![p].writes = <<>>]
    /\ request' = [op |-> "assess", data |-> tx[p].data, connected |-> TRUE,
                   analyzed |-> FALSE]
    /\ response' = [status |-> 500]
    /\ UNCHANGED <<assessments, patterns, insights, contributed, logCalls, engine>>

\* submissions of the concurrent specification: the same industry key, weak
\* categories in both orders, different scores under the same keys
ConcBodies ==
    {[industry |-> "retail", answers |-> FullAnswers(0, 30)],
     [industry |-> "retail", answers |-> [k \in AllQuestions |-> 90]],
     [answers |-> FullAnswers(0, 30)],
     [answers |-> FullAnswers(30, 0)]}

InitConc ==
    /\ assessments = <<>>
    /\ patterns = <<>>
    /\ insights = <<>>
    /\ request = [op |-> "none"]
    /\ response = [status |-> 0]
    /\ contributed = <<>>
    /\ logCalls = 0
    /\ tx = [p \in Procs |-> IdleTx]
    /\ engine = ReadyEngine

BeginStep == \E p \in Procs, data \in ConcBodies : Begin(p, data)

UpsertStep == \E p \in Procs : Upsert(p)

CommitStep == \E p \in Procs : Commit(p)

DeadlockStep == \E p \in Procs : DeadlockAbort(p)

NextConc == BeginStep \/ UpsertStep \/ CommitStep \/ DeadlockStep

SpecConc == InitConc /\ [][NextConc]_vars

\* ================================================================== claims

\* -------------------------------------------------- the race specification
\* Concurrent submissions on a store that already holds assessments. Each
\* submission inserts its assessment (assess_readiness, committed), logs its
\* patterns (log_patterns up to its commit), reads the assessment count and
\* analyzes if the count it read is a multiple of ten. Every submission has a
\* connection of its own; the statements of one commit take effect together.

\* the store as the tables a commit changes
EmptyStore == [assessments |-> <<>>, patterns |-> <<>>, contributed |-> <<>>]

\* assess_readiness, from the assessment insert to conn.commit()
SubmitWrites(store, data) ==
    LET answers == data.answers
        industry == GetIndustry(data)
        overall_score == OverallScore(answers)
        category_scores == CategoryScores(answers)
        ups == IndustryUpserts(industry, overall_score)
               \o WeakUpserts(WeakCategories(category_scores))
    IN  [assessments |-> Append(store.assessments,
                                [id |-> Len(store.assessments) + 1,
                                 industry |-> industry,
                                 overall_score |-> overall_score,
                                 category_scores |-> category_scores,
                                 readiness_level |-> Level(overall_score)]),
         patterns |-> ApplyUpserts(store.patterns, ups),
         contributed |-> ContributeAll(store.contributed, ups)]

\* log_patterns for the same submission, from step 1 to self.conn.commit()
LogWrites(store, data) ==
    LET industry == GetIndustry(data)
        overall_score == OverallScore(data.answers)
        ups == IndustryUpserts(industry, overall_score)
               \o BlockingUpserts(Items(CategoryScores(data.answers)))
        scored == ApplyUpserts(store.patterns, ups)
    IN  [assessments |-> store.assessments,
         patterns |-> IF overall_score >= 75
                      THEN UpsertFrequency(scored, HighPerformerKey(industry))
                      ELSE scored,
         contributed |-> ContributeAll(store.contributed, ups)]

\* the submission every stored assessment came from
SeedBody == [industry |-> "retail", answers |-> FullAnswers(0, 90)]

\* the store after n complete submissions
RECURSIVE SeedStore(_)
SeedStore(n) ==
    IF n = 0 THEN EmptyStore
    ELSE LogWrites(SubmitWrites(SeedStore(n - 1), SeedBody), SeedBody)

\* assessments stored before the concurrent submissions arrive: one and two
\* short of the multiple of ten
SeedCounts == {8, 9}

RaceBodies ==
    {[industry |-> "retail", answers |-> FullAnswers(0, 90)],
     [industry |-> "retail", answers |-> [k \in AllQuestions |-> 90]]}

IdleSubmission == [pc |-> "idle", data |-> <<>>, count |-> 0, analyzed |-> FALSE]

InitRace ==
    /\ \E n \in SeedCounts :
          /\ assessments = SeedStore(n).assessments
          /\ patterns = SeedStore(n).patterns
          /\ contributed = SeedStore(n).contributed
    /\ insights = <<>>
    /\ request = [op |-> "none"]
    /\ response = [status |-> 0]
    /\ logCalls = 0
    /\ tx = [p \in Procs |-> IdleSubmission]
    /\ engine = ReadyEngine

\* the submission's assessment and patterns are committed by assess_readiness
RaceInsert(p, data) ==
    LET store == SubmitWrites([assessments |-> assessments, patterns |-> patterns,
                               contributed |-> contributed], data)
    IN  /\ tx[p].pc = "idle"
        /\ HasAnswers(data)
        /\ assessments' = store.assessments
        /\ patterns' = store.patterns
        /\ contributed' = store.contributed
        /\ tx' = [tx EXCEPT ![p].pc = "inserted", ![p].data = data]
        /\ UNCHANGED <<insights, request, response, logCalls, engine>>

\* log_patterns up to its commit
RaceLog(p) ==
    LET store == LogWrites([assessments |-> assessments, patterns |-> patterns,
                            contributed |-> contributed], tx[p].data)
    IN  /\ tx[p].pc = "inserted"
        /\ patterns' = store.patterns
        /\ contributed' = store.contributed
        /\ logCalls' = logCalls + 1
        /\ tx' = [tx EXCEPT ![p].pc = "logged"]
        /\ UNCHANGED <<assessments, insights, request, response, engine>>

\* _check_analysis_trigger: SELECT COUNT(*) FROM readiness_assessments
RaceCount(p) ==
    /\ tx[p].pc = "logged"
    /\ tx' = [tx EXCEPT ![p].pc = "counted", ![p].count = Len(assessments)]
    /\ UNCHANGED <<assessments, patterns, insights, request, response, contributed,
                   logCalls, engine>>

\* _check_analysis_trigger: if count % 10 == 0: self.analyze_patterns()
RaceAnalyze(p) ==
    /\ tx[p].pc = "counted"
    /\ tx' = [tx EXCEPT ![p].pc = "done", ![p].analyzed = AnalysisDue(tx[p].count)]
    /\ IF AnalysisDue(tx[p].count)
       THEN \E rows \in AnalysisResults(patterns, assessments) :
                insights' = insights \o rows
       ELSE UNCHANGED insights
    /\ UNCHANGED <<assessments, patterns, request, response, contributed, logCalls,
                   engine>>

InsertStep == \E p \in Procs, data \in RaceBodies : RaceInsert(p, data)

LogStep == \E p \in Procs : RaceLog(p)

CountStep == \E p \in Procs : RaceCount(p)

AnalyzeStep == \E p \in Procs : RaceAnalyze(p)

NextRace == InsertStep \/ LogStep \/ CountStep \/ AnalyzeStep

SpecRace == InitRace /\ [][NextRace]_vars

\* the last step was an accepted /api/assess submission
Accepted == request.op = "assess" /\ response.status = 200

\* ------------------------------------------------------------------------
\* C1: for every non-empty answers mapping with integer values in 0..100 the
\* overall_score of the response is the arithmetic mean of the submitted
\* values rounded to the nearest integer (a mean halfway between two integers
\* goes to the even one, as Python's round does) and lies in 0..100.
C1_OverallScoreIsRoundedMean ==
    Accepted =>
        LET a == request.data.answers
            n == Cardinality(DOMAIN a)
            total == SumValues(a)
            o == response.body.overall_score
        IN  /\ o \in 0..100
            /\ 2 * (n * o - total) <= n
            /\ 2 * (total - n * o) <= n
            /\ (2 * (total - n * o) = n \/ 2 * (n * o - total) = n) => o % 2 = 0

\* an accepted submission whose mean lies halfway between two integers
C1_Witness ==
    /\ Accepted
    /\ LET a == request.data.answers
           n == Cardinality(DOMAIN a)
       IN  (2 * SumValues(a)) % (2 * n) = n

\* ------------------------------------------------------------------------
\* C2: every overall_score gets exactly one readiness level: Highly Ready
\* iff score >= 80, Ready with Some Preparation iff 60 <= score < 80,
\* Moderate Readiness iff 40 <= score < 60, Early Stage iff score < 40.
C2_TierPartition ==
    Accepted =>
        LET o == response.body.overall_score
            l == response.body.readiness_level
        IN  /\ l \in {"Highly Ready for AI", "Ready with Some Preparation",
                      "Moderate Readiness", "Early Stage"}
            /\ (l = "Highly Ready for AI") <=> (o >= 80)
            /\ (l = "Ready with Some Preparation") <=> (60 <= o /\ o < 80)
            /\ (l = "Moderate Readiness") <=> (40 <= o /\ o < 60)
            /\ (l = "Early Stage") <=> (o < 40)
            /\ assessments[Len(assessments)].readiness_level = l

\* an accepted submission whose score sits on a tier boundary
C2_Witness ==
    /\ Accepted
    /\ response.body.overall_score = 80
    /\ response.body.readiness_level = "Highly Ready for AI"

\* category c1 comes before c2: lower score, or equal score and declared earlier
Weaker(cs, c1, c2) ==
    \/ cs[c1] < cs[c2]
    \/ cs[c1] = cs[c2] /\ CategoryIndex(c1) < CategoryIndex(c2)

\* ------------------------------------------------------------------------
\* C7: weak_areas has length 3 and lists the categories with the lowest
\* category scores in ascending order of score, equal scores in the
\* categories' declaration order.
C7_WeakAreas ==
    Accepted =>
        LET w == response.body.weak_areas
            cs == response.body.category_scores
        IN  /\ Len(w) = 3
            /\ \A i \in 1..Len(w) : w[i] \in CategoryNames
            /\ \A i, j \in 1..Len(w) : i < j => Weaker(cs, w[i], w[j])
            /\ \A c \in CategoryNames :
                   (\A i \in 1..Len(w) : w[i] # c) => Weaker(cs, w[Len(w)], c)

\* weak areas with strictly rising scores, and a category left out that ties
\* with the last one listed
C7_Witness ==
    /\ Accepted
    /\ LET w == response.body.weak_areas
           cs == response.body.category_scores
       IN  /\ cs[w[1]] < cs[w[2]]
           /\ cs[w[2]] = cs[w[3]]
           /\ \E c \in CategoryNames : (\A i \in 1..3 : w[i] # c) /\ cs[c] = cs[w[3]]

\* ------------------------------------------------------------------------
\* C5: a POST /api/assess whose answers field is missing or an empty mapping
\* returns 400 with an 'error' body, opens no connection and leaves the
\* assessments, patterns and insights tables as they were.
C5_NoAnswersRejected ==
    [][ ( /\ request'.op = "assess"
          /\ ("answers" \notin DOMAIN request'.data \/ DOMAIN request'.data.answers = {}) )
        => ( /\ response'.status = 400
             /\ "error" \in DOMAIN response'.body
             /\ ~request'.connected
             /\ UNCHANGED <<assessments, patterns, insights>> ) ]_vars

\* a submission without answers was rejected while the tables held rows
C5_Witness ==
    /\ request.op = "assess"
    /\ "answers" \notin DOMAIN request.data
    /\ response.status = 400
    /\ assessments # <<>>
    /\ patterns # <<>>

FrequencyOf(key) ==
    LET rows == RowsWithKey(patterns, key)
    IN  SumOver([i \in rows |-> patterns[i].frequency], rows)

\* ------------------------------------------------------------------------
\* C8 as stated: after any sequence of assessments the frequency of each
\* ('blocking_factor', {category}) pattern equals the number of stored
\* assessments in which that category scored below 60.
C8_BlockingFactorPerAssessment ==
    \A c \in CategoryNames :
        FrequencyOf(BlockingFactorKey(c)) =
            Cardinality({i \in DOMAIN assessments : assessments[i].category_scores[c] < 60})

\* ------------------------------------------------------------------------
\* C9 as stated: after any sequence of assessments the frequency of an
\* industry's ('industry_readiness', {industry}) pattern equals the number of
\* stored assessments that named that industry, an overall_score of 0 included.
C9_IndustryPerAssessment ==
    \A ind \in {assessments[i].industry : i \in DOMAIN assessments} \ {NULL} :
        FrequencyOf(IndustryKey(ind)) =
            Cardinality({i \in DOMAIN assessments : assessments[i].industry = ind})

\* ------------------------------------------------------------------------
\* C4 as stated: the /api/assess submission that brings the assessment count
\* to a multiple of 10 runs the Insight Generator before it returns, so the
\* insights table has gained the conversion_potential row by then.
C4_TenthSubmissionAnalyzes ==
    [][ ( /\ request'.op = "assess"
          /\ response'.status = 200
          /\ Len(assessments') % 10 = 0 )
        => ( request'.analyzed /\ Len(insights') > Len(insights) ) ]_vars

\* ------------------------------------------------------------------------
\* C3: after k upserts of one (pattern_type, pattern_data) key with scores
\* s1..sk, in whatever order they arrived, the key has one row whose
\* frequency is k and whose avg_score is the arithmetic mean of s1..sk.
C3_AvgIsMean ==
    /\ \A key \in DOMAIN contributed :
          /\ Cardinality(RowsWithKey(patterns, key)) = 1
          /\ \A i \in RowsWithKey(patterns, key) :
                /\ patterns[i].frequency = contributed[key].n
                /\ patterns[i].avg_score[2] > 0
                /\ patterns[i].avg_score[1] * contributed[key].n
                       = contributed[key].sum * patterns[i].avg_score[2]
    /\ \A i \in DOMAIN patterns :
          patterns[i].avg_score # NullAvg => KeyOf(patterns[i]) \in DOMAIN contributed

\* a key upserted at least three times, by the application and by the engine,
\* whose mean is not a whole number
C3_Witness ==
    /\ request.op = "log_patterns"
    /\ assessments # <<>>
    /\ \E key \in DOMAIN contributed :
          /\ contributed[key].n >= 3
          /\ contributed[key].sum % contributed[key].n # 0

\* every concurrent submission has returned
AllEnded == tx # NoTx /\ \A p \in Procs : tx[p].pc \in {"done", "failed"}

\* ------------------------------------------------------------------------
\* C10: however concurrent submissions that upsert the same key interleave,
\* the key never has more than one pattern row, and once every submission has
\* ended the row's frequency is the number of upserts of the committed
\* submissions and its avg_score is the mean of their scores.
C10_NoLostUpdate ==
    /\ \A i, j \in DOMAIN patterns : KeyOf(patterns[i]) = KeyOf(patterns[j]) => i = j
    /\ AllEnded =>
          /\ \A key \in DOMAIN contributed :
                \E i \in DOMAIN patterns :
                    /\ KeyOf(patterns[i]) = key
                    /\ patterns[i].frequency = contributed[key].n
                    /\ patterns[i].avg_score[1] * contributed[key].n
                           = contributed[key].sum * patterns[i].avg_score[2]
          /\ \A i \in DOMAIN patterns : KeyOf(patterns[i]) \in DOMAIN contributed

\* every submission committed, one of them began while another was running,
\* and a key got an upsert from each of them, with different scores
C10_Witness ==
    /\ tx # NoTx
    /\ \A p \in Procs : tx[p].pc = "done" /\ tx[p].ups # <<>>
    /\ \E p \in Procs : tx[p].overlap
    /\ \E key \in DOMAIN contributed :
          /\ contributed[key].n = NumProcs
          /\ contributed[key].sum % NumProcs # 0

\* every scored pattern row counts exactly the upserts that were committed
CommittedFrequencies ==
    \A i \in DOMAIN patterns :
        patterns[i].avg_score # NullAvg =>
            /\ KeyOf(patterns[i]) \in DOMAIN contributed
            /\ patterns[i].frequency = contributed[KeyOf(patterns[i])].n

\* the last step was a log_patterns call whose step 3 was refused by the store
Step3Failed(req) == req.op = "log_patterns" /\ req.failed_step = 3

C12_ConnectionsReleased ==
    \A p \in Procs :
        tx[p].pc \in {"done", "failed"} => tx[p].conn # "open"

\* the multiples of ten the assessment count reached through the submissions
MultiplesReached ==
    {k \in (Len(assessments) - NumProcs + 1)..Len(assessments) : k % 10 = 0}

\* ------------------------------------------------------------------------
\* C13: once concurrent submissions (insert, log patterns, count check) have
\* all ended, the Insight Generator has run exactly once for each multiple of
\* ten the assessment count reached: never skipped, never run twice.
C13_AnalysisOncePerMultiple ==
    (\A p \in Procs : tx[p].pc = "done")
        => Cardinality({p \in Procs : tx[p].analyzed}) = Cardinality(MultiplesReached)

====
